---- MODULE Spec2Model ----
(***************************************************************************)
(* Model of the avientek_reports stock reports.                            *)
(*                                                                         *)
(*   - Avientek Stock Allocation: get_data's FIFO allocation of warehouse   *)
(*     stock to the open sales-order rows (avientek_stock_allocation.py).   *)
(*   - Batch-wise free-stock ageing: calculate_free_stock                   *)
(*     (batch_wise_free_stock_ageing_report.py), and execute's checks of    *)
(*     its filters.                                                         *)
(*   - Landing cost: _aed_to_usd and _get_landed_cost                       *)
(*     (avientek_free_stock___landing_cost.py).                             *)
(*   - The removal of all-zero rows of the free-stock and landing-cost      *)
(*     reports.                                                             *)
(*   - utils.rebuild_stock_allocation, the User Permission doc_event.       *)
(*   - The pivoted per-company rows of the free-stock and landing-cost      *)
(*     reports (build_pivoted_data_by_company, _build_rows).                *)
(*   - The allocation report over two companies, with the Company user      *)
(*     permissions and the company filter of its sales-order query.         *)
(*                                                                         *)
(* Quantities are integers (the code's floats, without rounding).  A        *)
(* nullable value (SQL NULL, Python None, a missing dict key) is the empty  *)
(* tuple None; a present number n is the one-element tuple <<n>>.           *)
(***************************************************************************)
EXTENDS Integers, Sequences, FiniteSets, TLC

\* ---------------------------------------------------------------- bounds
MaxLots == 2     \* Stock Ledger Entry rows in the database snapshot
MaxRows == 2     \* Sales Order Item rows returned by the sales-order query
MaxRuns == 2     \* executions of the report on one snapshot
MaxBatches == 2  \* (warehouse, batch) entries of one item in iwb_map
MaxFxRows == 2   \* Currency Exchange rows
MaxBins == 2     \* Bin rows of one item
MaxPOs == 2      \* Purchase Orders
MaxScrubRows == 2  \* report rows handed to the removal of all-zero rows
MaxReports == 2  \* Prepared Report rows before the first invocation
MaxCalls == 2    \* invocations of rebuild_stock_allocation

\* ------------------------------------------------------ program constants
SLE_COUNT_LIMIT == 100000
PegMilli == 3673   \* the fixed peg 3.673, in thousandths
REPORT_NAME == "Avientek Stock Allocation"

\* ---------------------------------------------------------------- values
None == <<>>
Some(n) == <<n>>
IsNone(v) == v = None
Val(v) == v[1]

Min2(a, b) == IF a <= b THEN a ELSE b
Max2(a, b) == IF a >= b THEN a ELSE b

RECURSIVE SumSeq(_)
SumSeq(s) == IF s = <<>> THEN 0 ELSE Head(s) + SumSeq(Tail(s))

SeqsUpTo(S, n) == UNION {[1..k -> S] : k \in 0..n}

\* frappe.utils.flt on a nullable number: None becomes 0
flt(v) == IF IsNone(v) THEN 0 ELSE Val(v)

\* ------------------------------------------------------- database snapshot
Companies == {"c1", "c2"}

\* tabStock Ledger Entry joined with tabWarehouse: company, actual_qty, posting_date
SleQtys == {-1, 3, 5}
SleDates == {1, 2}
SleRows(comps) == [company : comps, actual_qty : SleQtys, posting_date : SleDates]

\* tabBin summed per company: SUM(B.actual_qty), or no Bin row at all (None)
WhQtys == {None, Some(-2), Some(4), Some(9)}

\* tabSales Order Item: qty and delivered_qty (nullable columns)
SoiQtys == { [qty |-> Some(2), delivered_qty |-> Some(3)],
             [qty |-> Some(2), delivered_qty |-> Some(2)],
             [qty |-> Some(2), delivered_qty |-> Some(0)],
             [qty |-> Some(6), delivered_qty |-> Some(0)],
             [qty |-> None,    delivered_qty |-> Some(0)] }
SoiRows(comps) == [company : comps, soi : SoiQtys]

VARIABLES
    tabSLE,        \* Stock Ledger Entry rows, in table order
    tabBin,        \* company -> summed Bin.actual_qty (None: no Bin row)
    tabSOI,        \* submitted 'To Deliver and Bill' sales-order item rows, in query order
    pc,            \* "idle" | "loop" | "done" | "error": position of get_data
    run,           \* number of report executions started on this snapshot
    sales_orders,  \* get_data's local: the fetched rows
    idx,           \* index of the next row of the for-loop at line 303
    fifo_map,      \* get_data's local: company -> list of lot quantities
    stock_left,    \* get_data's local: company -> stock left (None: key absent)
    data,          \* get_data's local: output rows appended so far
    row_log,       \* per processed row: what the inner loop saw and took
    prev,          \* result of the previous completed execution (None: none yet)
    allowed_companies,  \* the session user's Company user-permission values
    company_filter      \* filters["company"] as a set ({}: not supplied)

allocVars == <<tabSLE, tabBin, tabSOI, pc, run, sales_orders, idx, fifo_map,
               stock_left, data, row_log, prev, allowed_companies, company_filter>>

\* ---- batch-wise free-stock ageing report (one item of iwb_map)
VARIABLES
    iwb,                 \* the item's qty_dicts, in iwb_map's iteration order
                         \* (warehouse by warehouse): warehouse, bal_qty,
                         \* free_stock and the batch's mfg_date
    reserved_qty,        \* so_reserved_map's entry for the item (None: no entry)
    apc,                 \* "start" | "walk" | "done" | "error": position of calculate_free_stock
    batches,             \* calculate_free_stock's local: the sorted list, as indices into iwb
    pos,                 \* index of the next batch of the loop at line 329
    remaining_reserved,  \* calculate_free_stock's local
    walk_log             \* per batch walked: what the loop body saw and set

ageingVars == <<iwb, reserved_qty, apc, batches, pos, remaining_reserved, walk_log>>

\* ---- batch-wise free-stock ageing report: execute's checks of its filters
VARIABLES
    filters,    \* the filters execute was called with
    sle_count,  \* frappe.db.count("Stock Ledger Entry")
    epc         \* position of execute: "idle" | "start" | "counted" | "dated" |
                \* "fetching", or the frappe.throw that ended it

filterVars == <<filters, sle_count, epc>>

\* execute of the ageing report has not been called
FiltersIdle ==
    /\ filters = <<>>
    /\ sle_count = 0
    /\ epc = "idle"

\* ---- landing-cost report: _aed_to_usd
VARIABLES
    tabCurrencyExchange,  \* the Currency Exchange rows, in order of creation
    fx                    \* None, or what _aed_to_usd came to

fxVars == <<tabCurrencyExchange, fx>>

\* _aed_to_usd has not been called
FxIdle ==
    /\ tabCurrencyExchange = <<>>
    /\ fx = None

\* ---- landing-cost report: _get_landed_cost for one item
VARIABLES
    lcBins,            \* the item's Bin rows, each with its warehouse's company
    tabPurchaseOrder,  \* the Purchase Orders, in order of creation, each with
                       \* the rates of its rows of the item
    lc_rate,           \* None, or the returned rate[item]: company -> fraction
    po_queries         \* the companies the Purchase Order query was run for

costVars == <<lcBins, tabPurchaseOrder, lc_rate, po_queries>>

\* _get_landed_cost has not been called
CostIdle ==
    /\ lcBins = <<>>
    /\ tabPurchaseOrder = <<>>
    /\ lc_rate = None
    /\ po_queries = {}

\* ---- free-stock and landing-cost reports: the removal of all-zero rows
VARIABLES
    scrub_columns,  \* the report's column definitions
    scrub_rows,     \* the report's rows before the removal
    scrub_out       \* None, or the returned list of rows

scrubVars == <<scrub_columns, scrub_rows, scrub_out>>

\* neither report is at its removal of all-zero rows
ScrubIdle ==
    /\ scrub_columns = <<>>
    /\ scrub_rows = <<>>
    /\ scrub_out = None

\* ---- utils.rebuild_stock_allocation, the User Permission doc_event
VARIABLES
    tabPreparedReport,  \* the Prepared Report rows
    session_user,       \* frappe.session.user
    queue,              \* the background jobs enqueued, oldest first
    rebuild_log         \* per invocation: what it was called for, found and did

rebuildVars == <<tabPreparedReport, session_user, queue, rebuild_log>>

\* no User Permission has been written
RebuildIdle ==
    /\ tabPreparedReport = <<>>
    /\ session_user = "Administrator"
    /\ queue = <<>>
    /\ rebuild_log = <<>>

\* ---- free-stock and landing-cost reports: the pivoted row of one item
VARIABLES
    pivot_report,     \* "free_stock" | "landing_cost": the report building the row
    pivot_companies,  \* the distinct companies, in column order
    item_aggs,        \* company -> the item's summed Bin quantities (None: none)
    item_price,       \* free stock: the item's unit_price from Item Price
    lc_rates,         \* landing cost: lc_rate[item], company -> rate in AED
    pivot_row         \* None, or the row built for the item

pivotVars == <<pivot_report, pivot_companies, item_aggs, item_price, lc_rates, pivot_row>>

\* neither report is building rows
PivotIdle ==
    /\ pivot_report = "none"
    /\ pivot_companies = <<>>
    /\ item_aggs = <<>>
    /\ item_price = None
    /\ lc_rates = <<>>
    /\ pivot_row = None

\* the components added after the two reports' calculations
otherVars == <<filterVars, fxVars, costVars, scrubVars, rebuildVars, pivotVars>>
OtherIdle == FiltersIdle /\ FxIdle /\ CostIdle /\ ScrubIdle /\ RebuildIdle /\ PivotIdle

vars == <<allocVars, ageingVars, otherVars>>

\* ------------------------------------------------------------ make_fifo_map
\* ORDER BY ... posting_date: insertion of one row into a list sorted by date,
\* after every row of the same or an earlier date (rows of equal date keep
\* their table order).
RECURSIVE InsertByDate(_, _)
InsertByDate(r, s) ==
    IF s = <<>> THEN <<r>>
    ELSE IF Head(s).posting_date <= r.posting_date
         THEN <<Head(s)>> \o InsertByDate(r, Tail(s))
         ELSE <<r>> \o s

OrderByDate_TableOrder(s) == s
RECURSIVE OrderByDate(_)
OrderByDate(s) ==
    IF s = <<>> THEN <<>>
    ELSE InsertByDate(s[Len(s)], OrderByDate(SubSeq(s, 1, Len(s) - 1)))

IsIncoming(r) == r.actual_qty > 0

\* the rows make_fifo_map's query returns for one company, in query order
LotRows(rows, comp) ==
    OrderByDate(SelectSeq(rows, LAMBDA r : r.company = comp /\ IsIncoming(r)))

make_fifo_map_Cached(rows) ==
    IF run = 0
    THEN [comp \in Companies |->
            [k \in 1..Len(LotRows(rows, comp)) |-> LotRows(rows, comp)[k].actual_qty]]
    ELSE fifo_map
make_fifo_map(rows) ==
    [comp \in Companies |->
        [k \in 1..Len(LotRows(rows, comp)) |-> LotRows(rows, comp)[k].actual_qty]]

\* make_bin_aggregate + clone_qty_map: wh_qty per company, flt() applied;
\* a company without Bin rows has no key
make_stock_left(bins) ==
    [comp \in Companies |-> IF IsNone(bins[comp]) THEN None ELSE Some(flt(bins[comp]))]

\* ------------------------------------------------------------ sales orders
\* (soi.qty - soi.delivered_qty) AS balance_qty: NULL if either operand is NULL
SqlMinus(a, b) == IF IsNone(a) \/ IsNone(b) THEN None ELSE Some(Val(a) - Val(b))

\* lines 131-145: the company condition of the sales-order query's WHERE
CompanyCondition(filter, allowed) ==
    IF filter # {} THEN filter
    ELSE IF allowed # {} THEN allowed
    ELSE Companies

WhereCompany(rows, filter, allowed) ==
    SelectSeq(rows, LAMBDA r : r.company \in CompanyCondition(filter, allowed))

FetchSalesOrders(rows) ==
    [k \in 1..Len(rows) |->
        [company       |-> rows[k].company,
         sales_order_qty |-> rows[k].soi.qty,
         delivered_qty |-> rows[k].soi.delivered_qty,
         balance_qty   |-> SqlMinus(rows[k].soi.qty, rows[k].soi.delivered_qty)]]

\* ------------------------------------------------------ the allocation loop
\* line 315: the inner loop's break test
LoopBreaks_AfterFirstTake(need, alloc, available) ==
    need <= 0 \/ alloc >= available \/ alloc > 0
LoopBreaks_IgnoresNeed(need, alloc, available) == alloc >= available
LoopBreaks(need, alloc, available) == need <= 0 \/ alloc >= available

\* line 317: take = min(lot["qty"], need, available - alloc)
Take_NoStockCap(lot_qty, need, room) == Min2(lot_qty, need)
Take_IgnoresLot(lot_qty, need, room) == Min2(need, room)
Take_IgnoresNeed(lot_qty, need, room) == Min2(lot_qty, room)
Take(lot_qty, need, room) == Min2(lot_qty, Min2(need, room))

\* line 320: lot["qty"] -= take
ConsumeLot_Forgets(lots, k, take) == lots
ConsumeLot(lots, k, take) == [lots EXCEPT ![k] = @ - take]

\* lines 314-320: the walk over the lots of one company from lot k on;
\* takes lists the quantity taken from each lot the loop body ran for
RECURSIVE FifoLoop(_, _, _, _, _, _)
FifoLoop(lots, k, need, alloc, available, takes) ==
    IF k > Len(lots) \/ LoopBreaks(need, alloc, available)
    THEN [lots |-> lots, alloc |-> alloc, need |-> need, takes |-> takes]
    ELSE LET take == Take(lots[k], need, available - alloc)
         IN  FifoLoop(ConsumeLot(lots, k, take), k + 1, need - take, alloc + take,
                      available, Append(takes, take))

\* line 310: available = stock_left[item].get(comp, 0)
Available(left, comp) == flt(left[comp])

\* lines 310-320 for one row with a numeric balance_qty
Allocate(lots, available, balance_qty) ==
    IF available > 0
    THEN FifoLoop(lots, 1, balance_qty, 0, available, <<>>)
    ELSE [lots |-> lots, alloc |-> 0, need |-> balance_qty, takes |-> <<>>]

\* line 322: stock_left[item][comp] = max(available - alloc, 0)
StockLeftAfter_Unclamped(available, alloc) == available - alloc
StockLeftAfter(available, alloc) == Max2(available - alloc, 0)

\* -------------------------------------------------------------- the actions
NoLots == [comp \in Companies |-> <<>>]
NoStock == [comp \in Companies |-> None]

InitAlloc(comps) ==
    /\ tabSLE \in SeqsUpTo(SleRows(comps), MaxLots)
    /\ tabBin \in [Companies -> WhQtys]
    /\ \A c \in Companies \ comps : tabBin[c] = None
    /\ tabSOI \in SeqsUpTo(SoiRows(comps), MaxRows)
    /\ pc = "idle"
    /\ run = 0
    /\ sales_orders = <<>>
    /\ idx = 1
    /\ fifo_map = NoLots
    /\ stock_left = NoStock
    /\ data = <<>>
    /\ row_log = <<>>
    /\ prev = None

\* lines 123-252: get_data is entered; the sales orders are fetched and, unless
\* there are none (line 245), the lot map and the stock-left map are built afresh
Execute ==
    /\ pc \in {"idle", "done", "error"}
    /\ run < MaxRuns
    /\ run' = run + 1
    /\ prev' = IF pc = "done"
               THEN Some([data |-> data, fifo_map |-> fifo_map, stock_left |-> stock_left])
               ELSE prev
    /\ sales_orders' = FetchSalesOrders(WhereCompany(tabSOI, company_filter, allowed_companies))
    /\ data' = <<>>
    /\ row_log' = <<>>
    /\ idx' = 1
    /\ IF sales_orders' = <<>>
       THEN /\ pc' = "done"
            /\ fifo_map' = NoLots
            /\ stock_left' = NoStock
       ELSE /\ pc' = "loop"
            /\ fifo_map' = make_fifo_map(tabSLE)
            /\ stock_left' = make_stock_left(tabBin)
    /\ UNCHANGED <<allowed_companies, company_filter, tabSLE, tabBin, tabSOI>>
    /\ UNCHANGED ageingVars
    /\ UNCHANGED otherVars

\* lines 303-324 and 342: one iteration of the loop over the sales-order rows,
\* for a row whose balance_qty is a number
AllocateRow_SharedStock ==
    /\ pc = "loop"
    /\ idx <= Len(sales_orders)
    /\ ~IsNone(sales_orders[idx].balance_qty)
    /\ LET so == sales_orders[idx]
           comp == so.company
           available == Available(stock_left, comp)
           balance_qty == Val(so.balance_qty)
           r == Allocate(fifo_map[comp], available, balance_qty)
           wh_after_alloc == StockLeftAfter(available, r.alloc)
       IN  /\ fifo_map' = [fifo_map EXCEPT ![comp] = r.lots]
           /\ stock_left' = [c \in Companies |-> Some(wh_after_alloc)]
           /\ data' = Append(data,
                  [company |-> comp,
                   balance_qty |-> balance_qty,
                   allocated_qty |-> r.alloc,
                   balance_to_allocate |-> balance_qty - r.alloc,
                   wh_qty_after_alloc |-> wh_after_alloc])
           /\ row_log' = Append(row_log,
                  [company |-> comp,
                   balance_qty |-> balance_qty,
                   available |-> available,
                   left_before |-> stock_left[comp],
                   lots_before |-> fifo_map[comp],
                   lots_after |-> r.lots,
                   left_after |-> Some(wh_after_alloc),
                   takes |-> r.takes,
                   alloc |-> r.alloc])
    /\ idx' = idx + 1
    /\ UNCHANGED <<allowed_companies, company_filter, tabSLE, tabBin, tabSOI, pc, run, sales_orders, prev>>
    /\ UNCHANGED ageingVars
    /\ UNCHANGED otherVars
AllocateRow ==
    /\ pc = "loop"
    /\ idx <= Len(sales_orders)
    /\ ~IsNone(sales_orders[idx].balance_qty)
    /\ LET so == sales_orders[idx]
           comp == so.company
           available == Available(stock_left, comp)
           balance_qty == Val(so.balance_qty)
           r == Allocate(fifo_map[comp], available, balance_qty)
           wh_after_alloc == StockLeftAfter(available, r.alloc)
       IN  /\ fifo_map' = [fifo_map EXCEPT ![comp] = r.lots]
           /\ stock_left' = [stock_left EXCEPT ![comp] = Some(wh_after_alloc)]
           /\ data' = Append(data,
                  [company |-> comp,
                   balance_qty |-> balance_qty,
                   allocated_qty |-> r.alloc,
                   balance_to_allocate |-> balance_qty - r.alloc,
                   wh_qty_after_alloc |-> wh_after_alloc])
           /\ row_log' = Append(row_log,
                  [company |-> comp,
                   balance_qty |-> balance_qty,
                   available |-> available,
                   left_before |-> stock_left[comp],
                   lots_before |-> fifo_map[comp],
                   lots_after |-> r.lots,
                   left_after |-> Some(wh_after_alloc),
                   takes |-> r.takes,
                   alloc |-> r.alloc])
    /\ idx' = idx + 1
    /\ UNCHANGED <<allowed_companies, company_filter, tabSLE, tabBin, tabSOI, pc, run, sales_orders, prev>>
    /\ UNCHANGED ageingVars
    /\ UNCHANGED otherVars

\* lines 303-324 for a row whose balance_qty is None: `need <= 0` (line 315)
\* raises TypeError when the loop body is entered; otherwise line 322 runs and
\* `so.balance_qty - alloc` (line 324) raises TypeError.  The report aborts.
AllocateRowRaises ==
    /\ pc = "loop"
    /\ idx <= Len(sales_orders)
    /\ IsNone(sales_orders[idx].balance_qty)
    /\ LET comp == sales_orders[idx].company
           available == Available(stock_left, comp)
       IN  stock_left' = IF available > 0 /\ fifo_map[comp] # <<>>
                         THEN stock_left
                         ELSE [stock_left EXCEPT ![comp] = Some(StockLeftAfter(available, 0))]
    /\ pc' = "error"
    /\ UNCHANGED <<allowed_companies, company_filter, tabSLE, tabBin, tabSOI, run, sales_orders, idx, fifo_map, data,
                   row_log, prev>>
    /\ UNCHANGED ageingVars
    /\ UNCHANGED otherVars

\* line 375: return data
Return ==
    /\ pc = "loop"
    /\ idx > Len(sales_orders)
    /\ pc' = "done"
    /\ UNCHANGED <<allowed_companies, company_filter, tabSLE, tabBin, tabSOI, run, sales_orders, idx, fifo_map,
                   stock_left, data, row_log, prev>>
    /\ UNCHANGED ageingVars
    /\ UNCHANGED otherVars

MainCompanies == {"c1"}

\* the ageing report is not running
AgeingIdle ==
    /\ iwb = <<>>
    /\ reserved_qty = None
    /\ apc = "done"
    /\ batches = <<>>
    /\ pos = 1
    /\ remaining_reserved = 0
    /\ walk_log = <<>>

\* no Company user-permission and no company filter
Unrestricted ==
    /\ allowed_companies = {}
    /\ company_filter = {}

Init == InitAlloc(MainCompanies) /\ Unrestricted /\ AgeingIdle /\ OtherIdle

Next == Execute \/ AllocateRow \/ AllocateRowRaises \/ Return

Spec == Init /\ [][Next]_vars

\* ======================================================= free-stock ageing
Warehouses == {"w1", "w2"}
BalQtys == {-3, 0, 10}
ReservedQtys == {None, Some(3), Some(10), Some(12)}

\* batch_map.get(batch_no, {}): None for a batch_no without Batch record; else
\* the record's manufacturing_date (a date, nullable) and creation (a datetime)
BatchDetails ==
    { None,
      Some([manufacturing_date |-> None,    creation |-> 1]),
      Some([manufacturing_date |-> Some(1), creation |-> 1]),
      Some([manufacturing_date |-> Some(2), creation |-> 1]) }

QtyDicts ==
    [warehouse : Warehouses, bal_qty : BalQtys, batch_details : BatchDetails,
     free_stock : {0}]

\* the nested loops of lines 313-314 visit the entries warehouse by warehouse
Grouped(s) ==
    \A i, j, k \in 1..Len(s) :
        (i < j /\ j < k /\ s[i].warehouse = s[k].warehouse)
            => s[j].warehouse = s[i].warehouse

\* line 316: mfg_date = manufacturing_date or creation; the value keeps its
\* Python type, date or datetime
MfgDate(details) ==
    IF IsNone(details) THEN None
    ELSE IF ~IsNone(Val(details).manufacturing_date)
         THEN Some([type |-> "date", at |-> Val(Val(details).manufacturing_date)])
         ELSE Some([type |-> "datetime", at |-> Val(details).creation])

\* line 325's key is (mfg_date is None, mfg_date or ""): tuples whose first
\* components are equal compare their second; a date against a datetime
\* raises TypeError.  Ordering the dated entries needs such a comparison
\* whenever both types occur among them.
SortRaises(s) ==
    \E i, j \in 1..Len(s) :
        /\ ~IsNone(MfgDate(s[i].batch_details))
        /\ ~IsNone(MfgDate(s[j].batch_details))
        /\ Val(MfgDate(s[i].batch_details)).type # Val(MfgDate(s[j].batch_details)).type

\* key(a) <= key(b) for two entries whose keys compare
KeyLE_NoneFirst(a, b) ==
    LET da == MfgDate(a.batch_details)
        db == MfgDate(b.batch_details)
    IN  IF IsNone(db) THEN IsNone(da)
        ELSE IsNone(da) \/ Val(da).at <= Val(db).at
KeyLE(a, b) ==
    LET da == MfgDate(a.batch_details)
        db == MfgDate(b.batch_details)
    IN  IF IsNone(da) THEN IsNone(db)
        ELSE IsNone(db) \/ Val(da).at <= Val(db).at

\* list.sort is stable: an index is inserted after every index whose key is
\* not greater
RECURSIVE InsertByKey(_, _, _)
InsertByKey(s, i, sorted) ==
    IF sorted = <<>> THEN <<i>>
    ELSE IF KeyLE(s[Head(sorted)], s[i])
         THEN <<Head(sorted)>> \o InsertByKey(s, i, Tail(sorted))
         ELSE <<i>> \o sorted

SortedIndices_NoSort(s, n) == [k \in 1..n |-> k]
RECURSIVE SortedIndices(_, _)
SortedIndices(s, n) ==
    IF n = 0 THEN <<>> ELSE InsertByKey(s, n, SortedIndices(s, n - 1))

\* lines 334-345: the loop body for one batch; the new free_stock and the new
\* remaining_reserved
WalkStep_NoSkip(bal_qty, remaining) ==
    IF remaining >= bal_qty
    THEN [free_stock |-> 0, remaining |-> remaining - bal_qty]
    ELSE [free_stock |-> bal_qty - remaining, remaining |-> 0]
WalkStep_FreesAll(bal_qty, remaining) ==
    IF bal_qty <= 0 THEN [free_stock |-> 0, remaining |-> remaining]
    ELSE IF remaining >= bal_qty
         THEN [free_stock |-> 0, remaining |-> remaining - bal_qty]
         ELSE [free_stock |-> bal_qty, remaining |-> 0]
WalkStep_Overdraws(bal_qty, remaining) ==
    IF bal_qty <= 0 THEN [free_stock |-> 0, remaining |-> remaining]
    ELSE [free_stock |-> bal_qty - remaining, remaining |-> 0]
WalkStep_KeepsReserved(bal_qty, remaining) ==
    IF bal_qty <= 0 THEN [free_stock |-> 0, remaining |-> remaining]
    ELSE IF remaining >= bal_qty
         THEN [free_stock |-> 0, remaining |-> remaining - bal_qty]
         ELSE [free_stock |-> bal_qty - remaining, remaining |-> remaining]
WalkStep(bal_qty, remaining) ==
    IF bal_qty <= 0 THEN [free_stock |-> 0, remaining |-> remaining]
    ELSE IF remaining >= bal_qty
         THEN [free_stock |-> 0, remaining |-> remaining - bal_qty]
         ELSE [free_stock |-> bal_qty - remaining, remaining |-> 0]

InitAgeing ==
    /\ iwb \in SeqsUpTo(QtyDicts, MaxBatches)
    /\ Grouped(iwb)
    /\ reserved_qty \in ReservedQtys
    /\ apc = "start"
    /\ batches = <<>>
    /\ pos = 1
    /\ remaining_reserved = 0
    /\ walk_log = <<>>

\* the stock-allocation report is not running
AllocIdle ==
    /\ tabSLE = <<>>
    /\ tabBin = NoStock
    /\ tabSOI = <<>>
    /\ pc = "idle"
    /\ run = 0
    /\ sales_orders = <<>>
    /\ idx = 1
    /\ fifo_map = NoLots
    /\ stock_left = NoStock
    /\ data = <<>>
    /\ row_log = <<>>
    /\ prev = None
    /\ allowed_companies = {}
    /\ company_filter = {}

\* lines 309-327 for the item: the batches are collected and sorted, and
\* remaining_reserved starts from the item's reserved quantity
SortBatches ==
    /\ apc = "start"
    /\ ~SortRaises(iwb)
    /\ batches' = SortedIndices(iwb, Len(iwb))
    /\ remaining_reserved' = flt(reserved_qty)
    /\ pos' = 1
    /\ apc' = "walk"
    /\ UNCHANGED <<iwb, reserved_qty, walk_log>>
    /\ UNCHANGED allocVars
    /\ UNCHANGED otherVars

\* line 325 raises TypeError: calculate_free_stock and the report abort
SortBatchesRaises ==
    /\ apc = "start"
    /\ SortRaises(iwb)
    /\ apc' = "error"
    /\ UNCHANGED <<iwb, reserved_qty, batches, pos, remaining_reserved, walk_log>>
    /\ UNCHANGED allocVars
    /\ UNCHANGED otherVars

\* lines 329-345: one iteration of the loop over the sorted batches
WalkBatch ==
    /\ apc = "walk"
    /\ pos <= Len(batches)
    /\ LET b == batches[pos]
           bal_qty == iwb[b].bal_qty
           r == WalkStep(bal_qty, remaining_reserved)
       IN  /\ iwb' = [iwb EXCEPT ![b].free_stock = r.free_stock]
           /\ remaining_reserved' = r.remaining
           /\ walk_log' = Append(walk_log,
                  [batch |-> b,
                   bal_qty |-> bal_qty,
                   reserved_before |-> remaining_reserved,
                   reserved_after |-> r.remaining,
                   free_stock |-> r.free_stock])
    /\ pos' = pos + 1
    /\ UNCHANGED <<reserved_qty, apc, batches>>
    /\ UNCHANGED allocVars
    /\ UNCHANGED otherVars

\* the loop at line 329 ends and calculate_free_stock returns
WalkEnds ==
    /\ apc = "walk"
    /\ pos > Len(batches)
    /\ apc' = "done"
    /\ UNCHANGED <<iwb, reserved_qty, batches, pos, remaining_reserved, walk_log>>
    /\ UNCHANGED allocVars
    /\ UNCHANGED otherVars

InitA == InitAgeing /\ AllocIdle /\ OtherIdle

NextA == SortBatches \/ SortBatchesRaises \/ WalkBatch \/ WalkEnds

SpecAgeing == InitA /\ [][NextA]_vars

\* ===================================================== stock allocation claims
Min3(a, b, c) == Min2(a, Min2(b, c))

RECURSIVE AllocatedSum(_, _)
AllocatedSum(rows, comp) ==
    IF rows = <<>> THEN 0
    ELSE (IF Head(rows).company = comp THEN Head(rows).allocated_qty ELSE 0)
         + AllocatedSum(Tail(rows), comp)

Logged == 1..Len(row_log)
\* quantity taken from lot j by logged row e (0 for a lot the loop never reached)
TakenFrom(e, j) == IF j <= Len(e.takes) THEN e.takes[j] ELSE 0
\* total taken by logged row e from the lots before lot k
TakenBefore(e, k) == SumSeq(SubSeq(e.takes, 1, k - 1))
MapsBuilt == pc # "idle" /\ sales_orders # <<>>

\* C1: the allocated_qty of all output rows of one (item, company) sums to at
\* most that pair's warehouse stock quantity max(wh_qty, 0).
C1_AllocatedWithinStock ==
    \A comp \in Companies :
        AllocatedSum(data, comp) <= Max2(flt(tabBin[comp]), 0)

C1_Witness ==
    /\ pc = "done"
    /\ Len(data) = 2
    /\ \A k \in 1..2 : data[k].company = "c1" /\ data[k].allocated_qty > 0
    /\ AllocatedSum(data, "c1") = flt(tabBin["c1"])
    /\ SumSeq(make_fifo_map(tabSLE)["c1"]) > flt(tabBin["c1"])

\* C2: lots are consumed oldest first: whenever a row takes a positive quantity
\* from a lot, every lot before it in the list, and every lot with an earlier
\* posting date, has remaining quantity zero at that moment.
C2_OldestFirst ==
    \A i \in Logged :
        LET e == row_log[i]
            dated == LotRows(tabSLE, e.company)
        IN  \A k \in 1..Len(e.takes) :
                e.takes[k] > 0 =>
                    \A j \in 1..Len(e.lots_before) :
                        (j < k \/ dated[j].posting_date < dated[k].posting_date)
                            => e.lots_before[j] - TakenFrom(e, j) = 0

C2_Witness ==
    /\ Len(tabSLE) = 2
    /\ tabSLE[1].posting_date > tabSLE[2].posting_date
    /\ \E i \in Logged :
          /\ Len(row_log[i].takes) = 2
          /\ row_log[i].takes[1] > 0
          /\ row_log[i].takes[2] > 0

\* C3: no lot's remaining quantity is ever negative, and no take is negative.
C3_LotsNonNegative ==
    /\ \A comp \in Companies :
          \A k \in 1..Len(fifo_map[comp]) : fifo_map[comp][k] >= 0
    /\ \A i \in Logged :
          \A k \in 1..Len(row_log[i].takes) : row_log[i].takes[k] >= 0

C3_Witness ==
    \E i \in Logged :
        /\ row_log[i].takes # <<>>
        /\ row_log[i].lots_after[1] = 0
        /\ row_log[i].balance_qty > SumSeq(row_log[i].lots_before)
        /\ row_log[i].available > SumSeq(row_log[i].lots_before)

\* C4 (as claimed): for every row, allocated <= min(D, sum of the lots'
\* remaining quantities before the row), D being the row's balance_qty.
C4_AsClaimed ==
    \A i \in Logged :
        row_log[i].alloc
            <= Min2(row_log[i].balance_qty, SumSeq(row_log[i].lots_before))

\* C4 (amended): for every row, allocated <= min(max(D, 0), sum of the lots'
\* remaining quantities before the row): a negative demand allocates nothing.
C4_AllocatedWithinDemand ==
    \A i \in Logged :
        row_log[i].alloc
            <= Min2(Max2(row_log[i].balance_qty, 0), SumSeq(row_log[i].lots_before))

C4_Witness ==
    /\ \E i \in Logged :
          /\ row_log[i].alloc = row_log[i].balance_qty
          /\ row_log[i].alloc > 0
          /\ SumSeq(row_log[i].lots_before) > row_log[i].alloc
    /\ \E i \in Logged : row_log[i].balance_qty < 0 /\ row_log[i].alloc = 0

\* C5: conservation: each row leaves the lots' remaining quantities summing to
\* their sum before the row minus the row's allocated quantity, and at any
\* point of a run the lots of a company sum to the original sum minus the
\* total allocated so far.
C5_Conservation ==
    /\ \A i \in Logged :
          SumSeq(row_log[i].lots_after)
              = SumSeq(row_log[i].lots_before) - row_log[i].alloc
    /\ MapsBuilt =>
          \A comp \in Companies :
              SumSeq(fifo_map[comp])
                  = SumSeq(make_fifo_map(tabSLE)[comp]) - AllocatedSum(data, comp)

C5_Witness ==
    /\ pc = "done"
    /\ Len(data) = 2
    /\ \A k \in 1..2 : data[k].allocated_qty > 0
    /\ SumSeq(fifo_map["c1"]) > 0

\* C6 (as claimed, for rows of non-negative demand): allocated = min(D, sum of
\* the lots' remaining quantities before the row).
C6_AsClaimed ==
    \A i \in Logged :
        row_log[i].balance_qty >= 0 =>
            row_log[i].alloc
                = Min2(row_log[i].balance_qty, SumSeq(row_log[i].lots_before))

\* C6 (amended): for each lot visited the take is min(lot.remaining, remaining
\* demand, stock left - allocated so far); the walk stops only when the demand
\* is met, the stock left is used up, or the lots are exhausted; so that
\* allocated = min(max(D, 0), sum of the lots, max(stock left, 0)).
C6_TakeIsMinOfThree ==
    \A i \in Logged :
        LET e == row_log[i]
        IN  /\ \A k \in 1..Len(e.takes) :
                  e.takes[k] = Min3(e.lots_before[k],
                                    e.balance_qty - TakenBefore(e, k),
                                    e.available - TakenBefore(e, k))
            /\ e.alloc = SumSeq(e.takes)
            /\ \/ Len(e.takes) = Len(e.lots_before)
               \/ e.balance_qty - e.alloc <= 0
               \/ e.alloc >= e.available
            /\ e.alloc = Min3(Max2(e.balance_qty, 0), SumSeq(e.lots_before),
                              Max2(e.available, 0))

\* the spec's example, with enough stock left: lots [5, 3], demand 6
C6_Witness ==
    \E i \in Logged :
        /\ row_log[i].lots_before = <<5, 3>>
        /\ row_log[i].balance_qty = 6
        /\ row_log[i].takes = <<5, 1>>
        /\ row_log[i].lots_after = <<0, 2>>
        /\ row_log[i].alloc = 6

\* C7 (as claimed): a row of zero or negative demand gets allocated_qty 0 and
\* leaves the lots and the stock-left counter as they were.
C7_AsClaimed ==
    \A i \in Logged :
        row_log[i].balance_qty <= 0 =>
            /\ row_log[i].alloc = 0
            /\ row_log[i].lots_after = row_log[i].lots_before
            /\ flt(row_log[i].left_after) = flt(row_log[i].left_before)

\* C7 (amended): a row of zero or negative demand gets allocated_qty 0 and
\* leaves the lots as they were; the stock-left counter is left as it was if
\* it was >= 0 and is set to 0 if it was negative.
C7_NoDemandNoAllocation ==
    \A i \in Logged :
        row_log[i].balance_qty <= 0 =>
            /\ row_log[i].alloc = 0
            /\ row_log[i].lots_after = row_log[i].lots_before
            /\ flt(row_log[i].left_after) = Max2(flt(row_log[i].left_before), 0)

C7_Witness ==
    /\ \E i \in Logged :
          /\ row_log[i].balance_qty < 0
          /\ row_log[i].available > 0
          /\ SumSeq(row_log[i].lots_before) > 0
    /\ \E i \in Logged :
          /\ row_log[i].balance_qty = 0
          /\ row_log[i].available > 0
          /\ SumSeq(row_log[i].lots_before) > 0

\* C8: a second execution on the same snapshot returns the same rows and ends
\* with the same remaining lot quantities and stock left as the one before it,
\* and every execution starts its loop from the snapshot's fresh lots.
C8_RunsAgree ==
    /\ (pc = "done" /\ ~IsNone(prev)) =>
          /\ data = Val(prev).data
          /\ fifo_map = Val(prev).fifo_map
          /\ stock_left = Val(prev).stock_left
    /\ (pc = "loop" /\ idx = 1) =>
          \A comp \in Companies :
              SumSeq(fifo_map[comp])
                  = SumSeq(SelectSeq([k \in 1..Len(tabSLE) |->
                                        IF tabSLE[k].company = comp
                                        THEN tabSLE[k].actual_qty ELSE 0],
                                     LAMBDA q : q > 0))

C8_Witness ==
    /\ pc = "done"
    /\ run = 2
    /\ ~IsNone(prev)
    /\ \E k \in 1..Len(data) : data[k].allocated_qty > 0

\* C9: processing the sales-order rows never fails, whatever quantities are
\* missing.
C9_NeverFails == pc # "error"

\* ===================================================== free-stock ageing claims
Walked == 1..Len(walk_log)

\* C10: the batches are walked in sorted order with a running
\* remaining_reserved that starts at the item's reserved quantity; a batch of
\* positive balance gets free_stock 0 and lowers remaining_reserved by its
\* balance if remaining_reserved >= balance, and otherwise gets
\* free_stock = balance - remaining_reserved and sets remaining_reserved to 0.
C10_WalkConsumesReserved ==
    \A i \in Walked :
        LET e == walk_log[i]
        IN  /\ e.batch = batches[i]
            /\ e.bal_qty = iwb[e.batch].bal_qty
            /\ e.free_stock = iwb[e.batch].free_stock
            /\ e.reserved_before = (IF i = 1 THEN flt(reserved_qty)
                                    ELSE walk_log[i - 1].reserved_after)
            /\ (i = Len(walk_log)) => remaining_reserved = e.reserved_after
            /\ e.bal_qty > 0 =>
                  IF e.reserved_before >= e.bal_qty
                  THEN /\ e.free_stock = 0
                       /\ e.reserved_after = e.reserved_before - e.bal_qty
                  ELSE /\ e.free_stock = e.bal_qty - e.reserved_before
                       /\ e.reserved_after = 0

C10_Witness ==
    /\ apc = "done"
    /\ Len(walk_log) = 2
    /\ walk_log[1].bal_qty > 0
    /\ walk_log[1].reserved_before >= walk_log[1].bal_qty
    /\ walk_log[2].bal_qty > 0
    /\ walk_log[2].reserved_before > 0
    /\ walk_log[2].reserved_before < walk_log[2].bal_qty
    /\ walk_log[2].free_stock > 0

\* the sort key's date of the entry at index b of iwb
DateOf(b) == MfgDate(iwb[b].batch_details)
Dated(b) == ~IsNone(DateOf(b))
\* entry a is older than entry b
Older(a, b) == Dated(a) /\ Dated(b) /\ Val(DateOf(a)).at < Val(DateOf(b)).at
Entries == 1..Len(iwb)

\* C11: after calculate_free_stock (and at every point of it) the free_stock
\* of every batch is >= 0, whatever the balances and the reserved quantity.
C11_FreeStockNonNegative ==
    \A b \in Entries : iwb[b].free_stock >= 0

C11_Witness ==
    /\ apc = "done"
    /\ Len(iwb) = 2
    /\ \E b \in Entries : iwb[b].bal_qty < 0 /\ iwb[b].free_stock = 0
    /\ \E b \in Entries : iwb[b].bal_qty > 0 /\ iwb[b].free_stock > 0
    /\ flt(reserved_qty) > 0

\* C12: the reserved quantity is deducted oldest first across the warehouses:
\* once calculate_free_stock has returned, a batch has free_stock below its
\* balance only if every older batch of positive balance has free_stock 0; two
\* batches of balance 10 dated 1 and 2 get free_stock 0 and 8 for reserved 12,
\* and the later one keeps free_stock 10 for a reserved quantity below 10.
C12_OldestBatchFirst ==
    apc = "done" =>
        /\ \A b \in Entries :
              iwb[b].free_stock < iwb[b].bal_qty =>
                  \A a \in Entries :
                      (Older(a, b) /\ iwb[a].bal_qty > 0) => iwb[a].free_stock = 0
        /\ \A a, b \in Entries :
              (Len(iwb) = 2 /\ Older(a, b) /\ iwb[a].bal_qty = 10 /\ iwb[b].bal_qty = 10) =>
                  /\ flt(reserved_qty) = 12 =>
                        iwb[a].free_stock = 0 /\ iwb[b].free_stock = 8
                  /\ flt(reserved_qty) < 10 =>
                        iwb[b].free_stock = 10

C12_Witness ==
    /\ apc = "done"
    /\ Len(iwb) = 2
    /\ iwb[1].warehouse # iwb[2].warehouse
    /\ Older(2, 1)
    /\ iwb[1].bal_qty = 10 /\ iwb[2].bal_qty = 10
    /\ reserved_qty = Some(12)
    /\ iwb[2].free_stock = 0
    /\ iwb[1].free_stock = 8

\* C13: in the sorted list the batches without a date come after all dated
\* batches, batches of equal date keep their insertion order, dated batches
\* are in ascending date order, and every batch is in the list once.
C13_UndatedLastStable ==
    apc \in {"walk", "done"} =>
        /\ Len(batches) = Len(iwb)
        /\ {batches[i] : i \in 1..Len(batches)} = Entries
        /\ \A i, j \in 1..Len(batches) :
              i < j =>
                  /\ ~(~Dated(batches[i]) /\ Dated(batches[j]))
                  /\ ~Older(batches[j], batches[i])
                  /\ (DateOf(batches[i]) = DateOf(batches[j])) => batches[i] < batches[j]

C13_Witness ==
    /\ apc = "done"
    /\ Len(iwb) = 2
    /\ ~Dated(1)
    /\ Dated(2)
    /\ batches = <<2, 1>>
    /\ walk_log[1].batch = 2

\* ============================================ ageing report: filter checks
FilterDates == {None, Some(1), Some(2)}
Flags == {None, Some(1)}   \* a filter that is absent, or set to some value
SleCounts == {0, SLE_COUNT_LIMIT - 1, SLE_COUNT_LIMIT, SLE_COUNT_LIMIT + 1}
Filters == [from_date : FilterDates, to_date : FilterDates,
            item_code : Flags, warehouse : Flags, warehouse_type : Flags]

\* filters.get(k) is truthy
Given(v) == ~IsNone(v)

\* lines 19-29: the condition of the first frappe.throw
CountThrows_AtLimit(f, n) ==
    /\ n >= SLE_COUNT_LIMIT
    /\ ~Given(f.item_code)
    /\ ~Given(f.warehouse)
    /\ ~Given(f.warehouse_type)
CountThrows(f, n) ==
    /\ n > SLE_COUNT_LIMIT
    /\ ~Given(f.item_code)
    /\ ~Given(f.warehouse)
    /\ ~Given(f.warehouse_type)

\* lines 31-33: the condition of the second frappe.throw
OrderThrows_OnlyEqual(f) ==
    /\ Given(f.from_date)
    /\ Given(f.to_date)
    /\ Val(f.from_date) = Val(f.to_date)
OrderThrows(f) ==
    /\ Given(f.from_date)
    /\ Given(f.to_date)
    /\ Val(f.from_date) > Val(f.to_date)

InitFilters ==
    /\ filters \in Filters
    /\ sle_count \in SleCounts
    /\ epc = "start"

notFilters == <<allocVars, ageingVars, fxVars, costVars, scrubVars, rebuildVars, pivotVars>>

\* lines 17-25 with the condition false: execute goes on
CheckCount ==
    /\ epc = "start"
    /\ ~CountThrows(filters, sle_count)
    /\ epc' = "counted"
    /\ UNCHANGED <<filters, sle_count>>
    /\ UNCHANGED notFilters

\* lines 26-29: frappe.throw("Please select either the Item or Warehouse ...")
CheckCountThrows ==
    /\ epc = "start"
    /\ CountThrows(filters, sle_count)
    /\ epc' = "throw_select_filter"
    /\ UNCHANGED <<filters, sle_count>>
    /\ UNCHANGED notFilters

\* lines 31-32 with no throw
CheckOrder ==
    /\ epc = "counted"
    /\ ~OrderThrows(filters)
    /\ epc' = "dated"
    /\ UNCHANGED <<filters, sle_count>>
    /\ UNCHANGED notFilters

\* line 33: frappe.throw("From Date must be before To Date")
CheckOrderThrows ==
    /\ epc = "counted"
    /\ OrderThrows(filters)
    /\ epc' = "throw_date_order"
    /\ UNCHANGED <<filters, sle_count>>
    /\ UNCHANGED notFilters

\* lines 35-40 and 102-107: get_item_warehouse_batch_map reaches
\* get_stock_ledger_entries_for_batch_no, which requires both dates
FetchEntries_AnyDates ==
    /\ epc = "dated"
    /\ epc' = "fetching"
    /\ UNCHANGED <<filters, sle_count>>
    /\ UNCHANGED notFilters
FetchEntries ==
    /\ epc = "dated"
    /\ Given(filters.from_date)
    /\ Given(filters.to_date)
    /\ epc' = "fetching"
    /\ UNCHANGED <<filters, sle_count>>
    /\ UNCHANGED notFilters

\* lines 104-107: frappe.throw("'From Date' is required") or the same of To Date
FetchEntriesThrows ==
    /\ epc = "dated"
    /\ ~Given(filters.from_date) \/ ~Given(filters.to_date)
    /\ epc' = IF ~Given(filters.from_date) THEN "throw_from_required"
              ELSE "throw_to_required"
    /\ UNCHANGED <<filters, sle_count>>
    /\ UNCHANGED notFilters

InitF == InitFilters /\ AllocIdle /\ AgeingIdle /\ FxIdle /\ CostIdle /\ ScrubIdle /\ RebuildIdle /\ PivotIdle

NextF ==
    \/ CheckCount
    \/ CheckCountThrows
    \/ CheckOrder
    \/ CheckOrderThrows
    \/ FetchEntries
    \/ FetchEntriesThrows

SpecFilters == InitF /\ [][NextF]_vars

\* ----------------------------------------------------- filter-check claims
Aborted == epc \in {"throw_select_filter", "throw_date_order",
                    "throw_from_required", "throw_to_required"}

\* C18: when from_date and to_date are both given and from_date is after
\* to_date, execute does not get past its date check: it ends in a
\* frappe.throw there or before.
C18_DateOrderAborts ==
    (/\ Given(filters.from_date)
     /\ Given(filters.to_date)
     /\ Val(filters.from_date) > Val(filters.to_date))
    => /\ epc \notin {"dated", "fetching", "throw_from_required", "throw_to_required"}
       /\ epc \notin {"start", "counted"} => Aborted

C18_Witness ==
    /\ epc = "throw_date_order"
    /\ filters.from_date = Some(2)
    /\ filters.to_date = Some(1)

\* C19: once the count check has been made, execute has ended in the
\* "select a filter" error exactly when there are more than 100,000 ledger
\* entries and none of item_code, warehouse and warehouse_type is set.
C19_CountLimitAborts ==
    epc # "start" =>
        (epc = "throw_select_filter"
            <=> /\ sle_count > 100000
                /\ filters.item_code = None
                /\ filters.warehouse = None
                /\ filters.warehouse_type = None)

C19_Witness ==
    /\ epc = "throw_select_filter"
    /\ sle_count = 100001
    /\ filters.from_date = Some(1)
    /\ filters.to_date = Some(2)

\* ============================================ landing cost: _aed_to_usd
\* Exchange rates are in thousandths (3673 is 3.673); the factor 1 / rate is
\* the fraction <<1000, rate in thousandths>>.
Currencies == {"USD", "EUR"}
FxDates == {1, 2}
FxRates == {None, Some(0), Some(3500), Some(4000)}
FxRows == [from_currency : Currencies, to_currency : {"AED"},
           date : FxDates, exchange_rate : FxRates]

\* WHERE from_currency = 'USD' AND to_currency = 'AED'
IsUsdAed(r) == r.from_currency = "USD" /\ r.to_currency = "AED"

\* ORDER BY date DESC, creation DESC LIMIT 1 over the rows 1..n: the index of
\* the row the query returns, 0 for an empty result (creation is the position)
RECURSIVE LatestRate(_, _)
LatestRate(rows, n) ==
    IF n = 0 THEN 0
    ELSE LET best == LatestRate(rows, n - 1)
         IN  IF ~IsUsdAed(rows[n]) THEN best
             ELSE IF best = 0 THEN n
             ELSE IF rows[n].date >= rows[best].date THEN n
             ELSE best

\* line 35, the divisor: flt(row[0].exchange_rate or 3.673), or 3.673
Divisor_NoFallback(rows) ==
    LET k == LatestRate(rows, Len(rows))
    IN  IF k = 0 THEN PegMilli
        ELSE flt(rows[k].exchange_rate)
Divisor(rows) ==
    LET k == LatestRate(rows, Len(rows))
    IN  IF k = 0 THEN PegMilli
        ELSE IF flt(rows[k].exchange_rate) # 0 THEN flt(rows[k].exchange_rate)
        ELSE PegMilli

\* line 35, the division
OneOver(d) ==
    IF d = 0 THEN [outcome |-> "ZeroDivisionError", factor |-> <<>>]
    ELSE [outcome |-> "ok", factor |-> <<1000, d>>]

InitFx ==
    /\ tabCurrencyExchange \in SeqsUpTo(FxRows, MaxFxRows)
    /\ fx = None

notFx == <<allocVars, ageingVars, filterVars, costVars, scrubVars, rebuildVars, pivotVars>>

\* lines 24-35: _aed_to_usd
AedToUsd ==
    /\ fx = None
    /\ fx' = OneOver(Divisor(tabCurrencyExchange))
    /\ UNCHANGED tabCurrencyExchange
    /\ UNCHANGED notFx

InitX == InitFx /\ AllocIdle /\ AgeingIdle /\ FiltersIdle /\ CostIdle /\ ScrubIdle /\ RebuildIdle /\ PivotIdle

NextX == AedToUsd

SpecFx == InitX /\ [][NextX]_vars

\* ------------------------------------------------------- _aed_to_usd claim
UsdAedRows == {k \in 1..Len(tabCurrencyExchange) : IsUsdAed(tabCurrencyExchange[k])}
\* k is the latest USD -> AED row: none is of a later date, or of the same
\* date and created later
IsLatest(k) ==
    /\ k \in UsdAedRows
    /\ \A j \in UsdAedRows :
          \/ tabCurrencyExchange[j].date < tabCurrencyExchange[k].date
          \/ tabCurrencyExchange[j].date = tabCurrencyExchange[k].date /\ j <= k

\* C20: _aed_to_usd never fails: it returns 1 / rate of the latest USD -> AED
\* row when that rate is non-zero, and 1 / 3.673 when there is no such row or
\* its rate is zero or null.
C20_FactorNeverFails ==
    fx # None =>
        /\ fx.outcome = "ok"
        /\ UsdAedRows = {} => fx.factor = <<1000, 3673>>
        /\ \A k \in UsdAedRows :
              IsLatest(k) =>
                  LET rate == tabCurrencyExchange[k].exchange_rate
                  IN  IF rate \notin {None, Some(0)}
                      THEN fx.factor = <<1000, Val(rate)>>
                      ELSE fx.factor = <<1000, 3673>>

C20_Witness ==
    /\ fx # None
    /\ Len(tabCurrencyExchange) = 2
    /\ IsLatest(1)
    /\ UsdAedRows = {1, 2}
    /\ tabCurrencyExchange[1].exchange_rate = Some(0)
    /\ tabCurrencyExchange[2].exchange_rate = Some(4000)
    /\ fx.factor = <<1000, 3673>>

\* ====================================== landing cost: _get_landed_cost
\* A rate is the fraction <<numerator, denominator>>, denominator > 0.
ValuationRates == {0, 5}
\* bins in stock at either rate, and an empty bin that still carries a rate
LcBinRows ==
    [company : Companies, actual_qty : {2}, valuation_rate : ValuationRates]
    \cup [company : Companies, actual_qty : {0}, valuation_rate : {5}]
PoDates == {1, 2}
PoItemRates == {<<4, 8>>, <<5>>}
\* orders with rows of the item, and a submitted order of the latest date
\* without one (rates <<>>)
PoRows ==
    [company : Companies, docstatus : {0, 1},
     transaction_date : PoDates, rates : PoItemRates]
    \cup [company : Companies, docstatus : {1}, transaction_date : {2}, rates : {<<>>}]

Zero == <<0, 1>>
Truthy(fr) == fr[1] # 0
FracEq(a, b) == a[1] * b[2] = b[1] * a[2]

\* line 152: companies = sorted({company of every Bin row})
CompaniesOf(bins) ==
    SelectSeq(<<"c1", "c2">>, LAMBDA c : \E k \in 1..Len(bins) : bins[k].company = c)

\* lines 165-168, 172: the row of a Bin row in the stock query's sums
InStock(b, co) == b.company = co /\ b.actual_qty > 0

RECURSIVE StockQty(_, _)
StockQty(bins, co) ==
    IF bins = <<>> THEN 0
    ELSE (IF InStock(Head(bins), co) THEN Head(bins).actual_qty ELSE 0)
         + StockQty(Tail(bins), co)

RECURSIVE StockVal(_, _)
StockVal(bins, co) ==
    IF bins = <<>> THEN 0
    ELSE (IF InStock(Head(bins), co)
          THEN Head(bins).actual_qty * Head(bins).valuation_rate ELSE 0)
         + StockVal(Tail(bins), co)

\* lines 160-180: rate[it][co] after the stock query (0.0 without a row)
WeightedRate(bins, co) ==
    IF \E k \in 1..Len(bins) : InStock(bins[k], co)
    THEN <<StockVal(bins, co), StockQty(bins, co)>>
    ELSE Zero

\* lines 186-199: the Purchase Order query's WHERE for one order
PoMatches_Drafts(po, co) ==
    /\ po.company = co
    /\ po.rates # <<>>
PoMatches(po, co) ==
    /\ po.docstatus = 1
    /\ po.company = co
    /\ po.rates # <<>>

\* lines 195-196: ORDER BY transaction_date DESC, creation DESC LIMIT 1 over
\* the orders 1..n; 0 for an empty result
RECURSIVE LatestPO(_, _, _)
LatestPO(pos_, n, co) ==
    IF n = 0 THEN 0
    ELSE LET best == LatestPO(pos_, n - 1, co)
         IN  IF ~PoMatches(pos_[n], co) THEN best
             ELSE IF best = 0 THEN n
             ELSE IF pos_[n].transaction_date >= pos_[best].transaction_date THEN n
             ELSE best

\* lines 200-210: AVG(rate) of the order's rows of the item
PoAverage(po) == <<SumSeq(po.rates), Len(po.rates)>>

\* lines 183-210 for one company: the rate the loop leaves in rate[it][co]
LandedCost_AlwaysPO(bins, orders, co) ==
    LET w == WeightedRate(bins, co)
        k == LatestPO(orders, Len(orders), co)
    IN  IF k = 0 THEN w
        ELSE PoAverage(orders[k])
LandedCost(bins, orders, co) ==
    LET w == WeightedRate(bins, co)
        k == LatestPO(orders, Len(orders), co)
    IN  IF Truthy(w) THEN w
        ELSE IF k = 0 THEN w
        ELSE PoAverage(orders[k])

InitCost ==
    /\ lcBins \in SeqsUpTo(LcBinRows, MaxBins) \ {<<>>}
    /\ tabPurchaseOrder \in SeqsUpTo(PoRows, MaxPOs)
    /\ lc_rate = None
    /\ po_queries = {}

notCost == <<allocVars, ageingVars, filterVars, fxVars, scrubVars, rebuildVars, pivotVars>>

\* lines 159-211: _get_landed_cost for the item and the companies of its bins
GetLandedCost ==
    /\ lc_rate = None
    /\ LET companies == CompaniesOf(lcBins)
           cos == {companies[i] : i \in 1..Len(companies)}
       IN  /\ lc_rate' = Some([co \in cos |-> LandedCost(lcBins, tabPurchaseOrder, co)])
           /\ po_queries' = {co \in cos : ~Truthy(WeightedRate(lcBins, co))}
    /\ UNCHANGED <<lcBins, tabPurchaseOrder>>
    /\ UNCHANGED notCost

InitC == InitCost /\ AllocIdle /\ AgeingIdle /\ FiltersIdle /\ FxIdle /\ ScrubIdle /\ RebuildIdle /\ PivotIdle

NextC == GetLandedCost

SpecCost == InitC /\ [][NextC]_vars

\* ------------------------------------------------------ landed-cost claim
Orders == 1..Len(tabPurchaseOrder)
\* order k is a submitted order of company co with a row of the item
Eligible(k, co) ==
    /\ tabPurchaseOrder[k].docstatus = 1
    /\ tabPurchaseOrder[k].company = co
    /\ tabPurchaseOrder[k].rates # <<>>
\* and none such is of a later date, or of the same date and created later
IsLatestPO(k, co) ==
    /\ Eligible(k, co)
    /\ \A j \in Orders :
          Eligible(j, co) =>
              \/ tabPurchaseOrder[j].transaction_date < tabPurchaseOrder[k].transaction_date
              \/ /\ tabPurchaseOrder[j].transaction_date = tabPurchaseOrder[k].transaction_date
                 /\ j <= k
\* the bins of co with a positive quantity
StockOf(co) == {k \in 1..Len(lcBins) : lcBins[k].company = co /\ lcBins[k].actual_qty > 0}

\* C14: for a company of the item whose weighted stock rate is zero or absent
\* the landed cost is the average rate of the item's rows of the latest
\* submitted Purchase Order of that company with the item, and 0 without such
\* an order; a non-zero weighted rate is returned as it is, and no Purchase
\* Order is queried for it.
C14_LandedCostFallback ==
    lc_rate # None =>
        \A co \in DOMAIN Val(lc_rate) :
            LET got == Val(lc_rate)[co]
                w == <<StockVal(lcBins, co), StockQty(lcBins, co)>>
            IN  IF StockOf(co) # {} /\ w[1] # 0
                THEN /\ FracEq(got, w)
                     /\ co \notin po_queries
                ELSE /\ co \in po_queries
                     /\ (\A k \in Orders : ~Eligible(k, co)) => got[1] = 0
                     /\ \A k \in Orders :
                           IsLatestPO(k, co) =>
                               FracEq(got, <<SumSeq(tabPurchaseOrder[k].rates),
                                             Len(tabPurchaseOrder[k].rates)>>)

C14_Witness ==
    /\ lc_rate # None
    /\ DOMAIN Val(lc_rate) = {"c1", "c2"}
    /\ Truthy(WeightedRate(lcBins, "c2"))
    /\ po_queries = {"c1"}
    /\ Len(tabPurchaseOrder) = 2
    /\ IsLatestPO(1, "c1")
    /\ Eligible(2, "c1")
    /\ tabPurchaseOrder[1].rates = <<4, 8>>
    /\ tabPurchaseOrder[2].rates = <<5>>
    /\ Val(lc_rate)["c1"] = <<12, 2>>

\* ================================== removal of all-zero rows (two reports)
\* A fieldname is the pair <<prefix, field>>: "unit_price" is <<"", "unit_price">>
\* and "<company>_unit_price" is <<"c1", "unit_price">>.  A row maps every
\* fieldname to its value, None for a key the row does not have.
FreeStockColumns ==
    << [fieldname |-> <<"", "item_code">>, fieldtype |-> None],
       [fieldname |-> <<"", "unit_price">>, fieldtype |-> Some("Currency")],
       [fieldname |-> <<"c1", "wh_stock_qty">>, fieldtype |-> Some("Float")],
       [fieldname |-> <<"total", "wh_stock_qty">>, fieldtype |-> Some("Float")] >>
LandingCostColumns ==
    << [fieldname |-> <<"", "item_code">>, fieldtype |-> None],
       [fieldname |-> <<"", "unit_price">>, fieldtype |-> Some("Currency")],
       [fieldname |-> <<"c1", "unit_price">>, fieldtype |-> Some("Currency")],
       [fieldname |-> <<"c1", "wh_stock_qty">>, fieldtype |-> Some("Float")],
       [fieldname |-> <<"total", "wh_stock_qty">>, fieldtype |-> Some("Float")] >>

Prices == {Some(0), Some(5)}
PivotQtys == {None, Some(0), Some(-2), Some(5)}
TotalQtys == {Some(0), Some(5)}
FieldNames == {LandingCostColumns[i].fieldname : i \in 1..Len(LandingCostColumns)}
ScrubRows ==
    {r \in [FieldNames -> PivotQtys \cup {Some(7)}] :
        /\ r[<<"", "item_code">>] = Some(7)
        /\ r[<<"", "unit_price">>] \in Prices
        /\ r[<<"c1", "unit_price">>] \in Prices
        /\ r[<<"c1", "wh_stock_qty">>] \in PivotQtys
        /\ r[<<"total", "wh_stock_qty">>] \in TotalQtys}

\* col.get("fieldtype") in ("Float", "Currency", "Int")
IsNumericType(c) == c.fieldtype \in {Some("Float"), Some("Currency"), Some("Int")}

\* free stock, lines 386-390: numeric_fields
NumericFields(columns) ==
    SelectSeq(columns, LAMBDA c : IsNumericType(c) /\ c.fieldname # <<"", "unit_price">>)

\* landing cost, lines 363-371: numeric
Numeric(columns) ==
    SelectSeq(columns, LAMBDA c : IsNumericType(c) /\ c.fieldname[2] # "unit_price")

\* val in (0, None)
IsZeroOrNone_OrNegative(val) == IsNone(val) \/ Val(val) <= 0
IsZeroOrNone(val) == IsNone(val) \/ Val(val) = 0

\* free stock, lines 393-399, and landing cost, line 372: the row's test
RowIsAllZero(row, numeric) ==
    \A i \in 1..Len(numeric) : IsZeroOrNone(row[numeric[i].fieldname])

\* free stock, lines 379-405
remove_all_zero_rows(columns, rows) ==
    IF rows = <<>> \/ columns = <<>> THEN <<>>
    ELSE SelectSeq(rows, LAMBDA r : ~RowIsAllZero(r, NumericFields(columns)))

\* landing cost, lines 362-372
scrub_zero_rows(columns, rows) ==
    SelectSeq(rows, LAMBDA r : ~RowIsAllZero(r, Numeric(columns)))

InitScrub ==
    /\ scrub_columns \in {FreeStockColumns, LandingCostColumns}
    /\ scrub_rows \in SeqsUpTo(ScrubRows, MaxScrubRows)
    /\ scrub_out = None

notScrub == <<allocVars, ageingVars, filterVars, fxVars, costVars, rebuildVars, pivotVars>>

\* avientek_free_stock.execute, line 35
RemoveAllZeroRows ==
    /\ scrub_out = None
    /\ scrub_columns = FreeStockColumns
    /\ scrub_out' = Some(remove_all_zero_rows(scrub_columns, scrub_rows))
    /\ UNCHANGED <<scrub_columns, scrub_rows>>
    /\ UNCHANGED notScrub

\* avientek_free_stock___landing_cost.execute, line 60
ScrubZeroRows ==
    /\ scrub_out = None
    /\ scrub_columns = LandingCostColumns
    /\ scrub_out' = Some(scrub_zero_rows(scrub_columns, scrub_rows))
    /\ UNCHANGED <<scrub_columns, scrub_rows>>
    /\ UNCHANGED notScrub

InitS == InitScrub /\ AllocIdle /\ AgeingIdle /\ FiltersIdle /\ FxIdle /\ CostIdle /\ RebuildIdle /\ PivotIdle

NextS == RemoveAllZeroRows \/ ScrubZeroRows

SpecScrub == InitS /\ [][NextS]_vars

\* ------------------------------------------------- all-zero-row claim
\* the fieldnames of the numeric columns other than the unit prices
NonPriceNumeric ==
    {scrub_columns[i].fieldname : i \in
        {j \in 1..Len(scrub_columns) :
            /\ scrub_columns[j].fieldtype \in {Some("Float"), Some("Currency"), Some("Int")}
            /\ scrub_columns[j].fieldname[2] # "unit_price"}}
\* row i has a numeric field besides the unit prices that is neither 0 nor null
HasNonZero(i) == \E f \in NonPriceNumeric : scrub_rows[i][f] \notin {None, Some(0)}
Retained == {i \in 1..Len(scrub_rows) : HasNonZero(i)}

\* C15: the output of the removal of all-zero rows is the input rows that have
\* a numeric (Float, Currency, Int) field other than unit price that is
\* neither 0 nor null (negative values count), in their input order.
C15_ZeroRowsRemoved ==
    scrub_out # None =>
        LET out == Val(scrub_out)
        IN  /\ Len(out) = Cardinality(Retained)
            /\ \E at \in [1..Len(out) -> Retained] :
                  /\ \A j, k \in 1..Len(out) : j < k => at[j] < at[k]
                  /\ \A j \in 1..Len(out) : out[j] = scrub_rows[at[j]]

C15_Witness ==
    /\ scrub_out # None
    /\ scrub_columns = LandingCostColumns
    /\ Len(scrub_rows) = 2
    /\ scrub_rows[1][<<"c1", "unit_price">>] = Some(5)
    /\ ~HasNonZero(1)
    /\ scrub_rows[2][<<"c1", "wh_stock_qty">>] = Some(-2)
    /\ scrub_rows[2][<<"total", "wh_stock_qty">>] = Some(0)
    /\ Val(scrub_out) = <<scrub_rows[2]>>

\* ================================== utils.rebuild_stock_allocation
Users == {"u1", "u2"}
ReportNames == {REPORT_NAME, "Avientek Free Stock"}
Statuses == {"Queued", "Started", "Completed"}
PreparedReports == [report_name : ReportNames, owner : Users, status : Statuses]
Events == {"after_insert", "on_update"}

\* lines 29-34: the user the rebuild is for.  An argument is None or a
\* one-element tuple holding the object; has_user is hasattr(doc, "user").
UserOf(login_manager, doc, session) ==
    IF ~IsNone(login_manager) THEN Val(login_manager).user
    ELSE IF ~IsNone(doc) /\ Val(doc).has_user THEN Val(doc).user
    ELSE session

\* lines 43-46: frappe.db.delete("Prepared Report", {report_name, owner})
Purge_AnyOwner(rows, user) ==
    SelectSeq(rows, LAMBDA r : ~(r.report_name = REPORT_NAME))
Purge(rows, user) ==
    SelectSeq(rows, LAMBDA r : ~(r.report_name = REPORT_NAME /\ r.owner = user))

\* lines 49-56: frappe.db.exists("Prepared Report", {report_name, owner,
\* status in (Queued, Started)})
AlreadyQueued(rows, user) ==
    \E k \in 1..Len(rows) :
        /\ rows[k].report_name = REPORT_NAME
        /\ rows[k].owner = user
        /\ rows[k].status \in {"Queued", "Started"}

\* lines 62-68: the job handed to enqueue
Job_ForSession(user, session) ==
    [method |-> "enqueue_prepared_report", report_name |-> REPORT_NAME, user |-> session]
Job(user, session) ==
    [method |-> "enqueue_prepared_report", report_name |-> REPORT_NAME, user |-> user]

InitRebuild ==
    /\ tabPreparedReport \in SeqsUpTo(PreparedReports, MaxReports)
    /\ session_user \in Users \cup {"Administrator"}
    /\ queue = <<>>
    /\ rebuild_log = <<>>

notRebuild == <<allocVars, ageingVars, filterVars, fxVars, costVars, scrubVars, pivotVars>>

\* hooks.py lines 146-151 and utils.py lines 18-71: a User Permission of user
\* u is inserted or updated; Frappe calls the hook as fn(doc, event), so the
\* document arrives as login_manager and the event's name as doc
RebuildStockAllocation(u, event) ==
    /\ Len(rebuild_log) < MaxCalls
    /\ LET login_manager == Some([user |-> u])
           doc == Some([has_user |-> FALSE, name |-> event])
           user == UserOf(login_manager, doc, session_user)
           purged == Purge(tabPreparedReport, user)
           skip == AlreadyQueued(purged, user)
       IN  /\ session_user' = "Administrator"
           /\ tabPreparedReport' = purged
           /\ queue' = IF skip THEN queue ELSE Append(queue, Job(user, session_user))
           /\ rebuild_log' = Append(rebuild_log,
                  [for_user |-> u,
                   event |-> event,
                   session_before |-> session_user,
                   rows_before |-> tabPreparedReport,
                   rows_after |-> purged,
                   queue_before |-> queue,
                   queue_after |-> IF skip THEN queue
                                   ELSE Append(queue, Job(user, session_user))])
    /\ UNCHANGED notRebuild

InitR == InitRebuild /\ AllocIdle /\ AgeingIdle /\ FiltersIdle /\ FxIdle /\ CostIdle /\ ScrubIdle /\ PivotIdle

NextR == \E u \in Users, event \in Events : RebuildStockAllocation(u, event)

SpecRebuild == InitR /\ [][NextR]_vars

\* ------------------------------------------------------- rebuild claims
Calls == 1..Len(rebuild_log)
\* the invocation found a Queued or Started report of its user
FoundQueued(e) ==
    \E k \in 1..Len(e.rows_before) :
        /\ e.rows_before[k].report_name = "Avientek Stock Allocation"
        /\ e.rows_before[k].owner = e.for_user
        /\ e.rows_before[k].status \in {"Queued", "Started"}

\* C16: an invocation that finds a Prepared Report of 'Avientek Stock
\* Allocation' owned by its user in status Queued or Started enqueues no job.
C16_GuardSkipsEnqueue ==
    \A c \in Calls :
        FoundQueued(rebuild_log[c]) =>
            rebuild_log[c].queue_after = rebuild_log[c].queue_before

\* C17: an invocation for the User Permission of user U leaves exactly the
\* Prepared Report rows that are of another report or another owner, in
\* their order, and every job it enqueues is for U.
C17_OnlyTheUser ==
    \A c \in Calls :
        LET e == rebuild_log[c]
            kept == {k \in 1..Len(e.rows_before) :
                        \/ e.rows_before[k].report_name # "Avientek Stock Allocation"
                        \/ e.rows_before[k].owner # e.for_user}
        IN  /\ Len(e.rows_after) = Cardinality(kept)
            /\ \E at \in [1..Len(e.rows_after) -> kept] :
                  /\ \A j, k \in 1..Len(e.rows_after) : j < k => at[j] < at[k]
                  /\ \A j \in 1..Len(e.rows_after) : e.rows_after[j] = e.rows_before[at[j]]
            /\ \A j \in 1..Len(e.queue_after) :
                  j > Len(e.queue_before) => e.queue_after[j].user = e.for_user
            /\ SubSeq(e.queue_after, 1, Len(e.queue_before)) = e.queue_before

C17_Witness ==
    /\ Len(rebuild_log) = 1
    /\ rebuild_log[1].for_user = "u1"
    /\ rebuild_log[1].session_before = "u2"
    /\ Len(rebuild_log[1].rows_before) = 2
    /\ rebuild_log[1].rows_before[1].owner = "u1"
    /\ rebuild_log[1].rows_before[1].report_name = "Avientek Stock Allocation"
    /\ rebuild_log[1].rows_before[2].owner = "u2"
    /\ rebuild_log[1].rows_before[2].report_name = "Avientek Stock Allocation"
    /\ tabPreparedReport = <<rebuild_log[1].rows_before[2]>>
    /\ Len(queue) = 1
    /\ queue[1].user = "u1"

\* ======================================= free-stock ageing claims, continued
\* C23: a batch of non-positive balance is skipped: its free_stock is set to
\* 0 and remaining_reserved is the same after it as before it, so the next
\* batch starts from the same remaining reserved quantity.
C23_NonPositiveSkipped ==
    \A i \in Walked :
        walk_log[i].bal_qty <= 0 =>
            /\ walk_log[i].free_stock = 0
            /\ iwb[walk_log[i].batch].free_stock = 0
            /\ walk_log[i].reserved_after = walk_log[i].reserved_before
            /\ i < Len(walk_log) =>
                  walk_log[i + 1].reserved_before = walk_log[i].reserved_before
            /\ i = Len(walk_log) => remaining_reserved = walk_log[i].reserved_before

C23_Witness ==
    /\ apc = "done"
    /\ Len(walk_log) = 2
    /\ walk_log[1].bal_qty < 0
    /\ walk_log[1].reserved_before = 3
    /\ walk_log[2].bal_qty = 10
    /\ walk_log[2].reserved_before = 3
    /\ walk_log[2].free_stock = 7

RECURSIVE FreeSum(_)
FreeSum(s) == IF s = <<>> THEN 0 ELSE Head(s).free_stock + FreeSum(Tail(s))
RECURSIVE PositiveSum(_)
PositiveSum(s) ==
    IF s = <<>> THEN 0 ELSE Max2(Head(s).bal_qty, 0) + PositiveSum(Tail(s))

C30_MissingDatesAbort ==
    (filters.from_date = None \/ filters.to_date = None) =>
        /\ epc # "fetching"
        /\ epc \notin {"start", "counted", "dated"} => Aborted

C30_Witness ==
    /\ epc = "throw_to_required"
    /\ sle_count = 0
    /\ filters.from_date = Some(1)
    /\ filters.to_date = None
    /\ filters.item_code = Some(1)

\* ================================================ rebuild claims, continued
\* the jobs in the queue that are for user u
JobsFor(u) == {j \in 1..Len(queue) : queue[j].user = u}

\* C27: over the invocations made so far, none of whose jobs has run, at
\* most one rebuild job has been enqueued for any one user.
C27_AtMostOneJob ==
    \A u \in Users : Cardinality(JobsFor(u)) <= 1

\* C28: after an invocation has returned, the session user is the user it
\* was before the call.
C28_SessionUnchanged ==
    rebuild_log # <<>> =>
        session_user = rebuild_log[Len(rebuild_log)].session_before

\* ====================================== stock allocation claims, continued
Rows == 1..Len(data)
\* the arithmetic of output row i that holds as claimed
RowBalances(i) ==
    /\ data[i].allocated_qty >= 0
    /\ data[i].allocated_qty + data[i].balance_to_allocate = data[i].balance_qty
    /\ data[i].wh_qty_after_alloc >= 0
    /\ \A j \in Rows :
          (i < j /\ data[j].company = data[i].company) =>
              data[j].wh_qty_after_alloc <= data[i].wh_qty_after_alloc

\* C25 as claimed: for every output row, allocated_qty >= 0, allocated_qty +
\* balance_to_allocate = balance_qty, and wh_qty_after_alloc = (stock left of
\* the company before the row) - allocated_qty >= 0; over the later rows of
\* the same company wh_qty_after_alloc never increases.
C25_AsClaimed ==
    \A i \in Rows :
        /\ RowBalances(i)
        /\ data[i].wh_qty_after_alloc
              = flt(row_log[i].left_before) - data[i].allocated_qty

\* C25, amended: the same, with wh_qty_after_alloc = max((stock left before
\* the row) - allocated_qty, 0): a negative stock is reported as 0.
C25_RowArithmetic ==
    \A i \in Rows :
        /\ RowBalances(i)
        /\ data[i].wh_qty_after_alloc
              = Max2(flt(row_log[i].left_before) - data[i].allocated_qty, 0)
        /\ flt(row_log[i].left_before) >= 0 =>
              data[i].wh_qty_after_alloc
                  = flt(row_log[i].left_before) - data[i].allocated_qty

C25_Witness ==
    /\ Len(data) = 2
    /\ row_log[1].left_before = Some(9)
    /\ data[1].allocated_qty = 6
    /\ data[1].wh_qty_after_alloc = 3
    /\ data[2].allocated_qty = 2
    /\ data[2].balance_to_allocate = 4
    /\ data[2].wh_qty_after_alloc = 1

\* =============================== stock allocation over two companies
\* The same report on a snapshot with Sales Orders, lots and Bins of both
\* companies, with any Company user-permissions and company filter.
PairSleRows == [company : Companies, actual_qty : {3}, posting_date : {1}]
PairWhQtys == {None, Some(4)}
PairSoiRows ==
    [company : Companies,
     soi : { [qty |-> Some(2), delivered_qty |-> Some(0)],
             [qty |-> Some(6), delivered_qty |-> Some(0)],
             [qty |-> None,    delivered_qty |-> Some(0)] }]

InitPairs ==
    /\ tabSLE \in SeqsUpTo(PairSleRows, MaxLots)
    /\ tabBin \in [Companies -> PairWhQtys]
    /\ tabSOI \in SeqsUpTo(PairSoiRows, MaxRows)
    /\ allowed_companies \in SUBSET Companies
    /\ company_filter \in SUBSET Companies
    /\ pc = "idle"
    /\ run = 0
    /\ sales_orders = <<>>
    /\ idx = 1
    /\ fifo_map = NoLots
    /\ stock_left = NoStock
    /\ data = <<>>
    /\ row_log = <<>>
    /\ prev = None

InitP == InitPairs /\ AgeingIdle /\ OtherIdle

SpecPairs == InitP /\ [][Next]_vars

\* ---------------------------------------------------- two-company claims
\* the logged rows of company c before row i (all of them for i past the log)
EarlierOf(c, i) == {j \in Logged : j < i /\ row_log[j].company = c}
Latest(S) == CHOOSE j \in S : \A k \in S : k <= j
\* the lots and the stock left of company c as the rows of c before row i left them
LotsLeftBy(c, i) ==
    IF EarlierOf(c, i) = {} THEN make_fifo_map(tabSLE)[c]
    ELSE row_log[Latest(EarlierOf(c, i))].lots_after
StockLeftBy(c, i) ==
    IF EarlierOf(c, i) = {} THEN make_stock_left(tabBin)[c]
    ELSE row_log[Latest(EarlierOf(c, i))].left_after

\* C26: every row finds the lots and the stock left of its company as the
\* earlier rows of the same company left them (as built from the snapshot
\* if there is none), and while the rows are processed the lots and the
\* stock left of every company are as its own rows left them: rows of
\* another company change neither.
C26_PairsIndependent ==
    /\ \A i \in Logged :
          /\ row_log[i].lots_before = LotsLeftBy(row_log[i].company, i)
          /\ row_log[i].left_before = StockLeftBy(row_log[i].company, i)
    /\ (pc \in {"loop", "done"} /\ sales_orders # <<>>) =>
          \A c \in Companies :
              /\ fifo_map[c] = LotsLeftBy(c, Len(row_log) + 1)
              /\ stock_left[c] = StockLeftBy(c, Len(row_log) + 1)

C26_Witness ==
    /\ pc = "done"
    /\ Len(row_log) = 2
    /\ row_log[1].company = "c1"
    /\ row_log[1].alloc = 3
    /\ row_log[2].company = "c2"
    /\ row_log[2].left_before = Some(4)
    /\ row_log[2].lots_before = <<3>>
    /\ row_log[2].alloc = 2
    /\ fifo_map["c1"] = <<0>>
    /\ stock_left["c1"] = Some(1)

ActualQtys == {0, 2}
OrderedQtys == {0, 3}
BinReservedQtys == {0, 1}
IndentedQtys == {0, 1}
StockRates == {3, 5}
\* the item's summed Bin rows of one company; val_qty is the same sum as
\* actual (landing cost, lines 141-149), val_val the sum of qty * valuation_rate
Aggs ==
    {[actual |-> a, ordered |-> o, reserved |-> r, indented |-> i,
      val_qty |-> a, val_val |-> a * v] :
        a \in ActualQtys, o \in OrderedQtys, r \in BinReservedQtys,
        i \in IndentedQtys, v \in StockRates}
NoAgg == [actual |-> 0, ordered |-> 0, reserved |-> 0, indented |-> 0,
          val_qty |-> 0, val_val |-> 0]
\* comp_dict.get(comp, {}) with flt() of every value; bin_sum[it][co]
AggOf(aggs, co) == IF IsNone(aggs[co]) THEN NoAgg ELSE Val(aggs[co])

\* fractions are kept in lowest terms
RECURSIVE Gcd(_, _)
Gcd(a, b) == IF b = 0 THEN a ELSE Gcd(b, a % b)
Abs(n) == IF n < 0 THEN 0 - n ELSE n
Lowest(fr) ==
    LET g == Gcd(Abs(fr[1]), fr[2])
    IN  <<fr[1] \div g, fr[2] \div g>>
FracAdd(a, b) == Lowest(<<a[1] * b[2] + b[1] * a[2], a[2] * b[2]>>)
FracMul(a, b) == Lowest(<<a[1] * b[1], a[2] * b[2]>>)
Whole(n) == <<n, 1>>

\* landing cost, line 37: AED_TO_USD = _aed_to_usd(), here without a live rate
AED_TO_USD == OneOver(Divisor(<<>>)).factor

\* the three derived quantities (free stock lines 325-327, landing cost 313-315)
Demand(reserved, indented) == reserved + indented
Free(actual, reserved) == actual - reserved
NetFree_IgnoresDemand(free, ordered, demand) == free + ordered
NetFree(free, ordered, demand) == free + ordered - demand

\* landing cost, lines 283-284: money(qty, rate_aed)
money(qty, rate_aed) == FracMul(FracMul(Whole(qty), rate_aed), AED_TO_USD)

\* free stock, lines 320-345: the pivot columns of one company
PivotColumns(agg, price) ==
    LET demand == Demand(agg.reserved, agg.indented)
        free == Free(agg.actual, agg.reserved)
        net_free == NetFree(free, agg.ordered, demand)
    IN  [wh_stock_qty |-> agg.actual,   wh_stock_val |-> Whole(agg.actual * price),
         ordered_qty  |-> agg.ordered,  ordered_val  |-> Whole(agg.ordered * price),
         demand_qty   |-> demand,       demand_val   |-> Whole(demand * price),
         free_qty     |-> free,         free_val     |-> Whole(free * price),
         net_free_qty |-> net_free,     net_free_val |-> Whole(net_free * price)]

\* landing cost, lines 304-331: the columns of one company
CostColumns(agg, lc) ==
    LET demand == Demand(agg.reserved, agg.indented)
        free == Free(agg.actual, agg.reserved)
        net_free == NetFree(free, agg.ordered, demand)
        stock_val == IF agg.val_qty # 0
                     THEN money(agg.actual, <<agg.val_val, agg.val_qty>>)
                     ELSE Whole(0)
    IN  [unit_price   |-> stock_val,
         wh_stock_qty |-> agg.actual,   wh_stock_val |-> stock_val,
         ordered_qty  |-> agg.ordered,  ordered_val  |-> money(agg.ordered, Whole(lc)),
         demand_qty   |-> demand,       demand_val   |-> money(demand, Whole(lc)),
         free_qty     |-> free,         free_val     |-> money(free, Whole(lc)),
         net_free_qty |-> net_free,     net_free_val |-> money(net_free, Whole(lc))]

QtyFields == {"wh_stock_qty", "ordered_qty", "demand_qty", "free_qty", "net_free_qty"}
ValFields == {"wh_stock_val", "ordered_val", "demand_val", "free_val", "net_free_val"}

\* the running totals after the first n companies' columns
RECURSIVE Totals(_, _)
Totals(cols, n) ==
    IF n = 0
    THEN [f \in QtyFields \cup ValFields |-> IF f \in QtyFields THEN 0 ELSE Whole(0)]
    ELSE LET t == Totals(cols, n - 1)
         IN  [f \in QtyFields \cup ValFields |->
                 IF f \in QtyFields THEN t[f] + cols[n][f]
                 ELSE FracAdd(t[f], cols[n][f])]

\* landing cost, lines 344-345: total_unit_price and total_qty after n companies
RECURSIVE UnitPriceSum(_, _)
UnitPriceSum(cols, n) ==
    IF n = 0 THEN Whole(0) ELSE FracAdd(UnitPriceSum(cols, n - 1), cols[n].unit_price)

\* free stock, lines 281-373, for one item
build_pivoted_row(companies, aggs, price) ==
    LET cols == [k \in 1..Len(companies) |-> PivotColumns(AggOf(aggs, companies[k]), flt(price))]
    IN  [unit_price |-> Whole(flt(price)),
         companies |-> companies,
         cols |-> cols,
         total |-> Totals(cols, Len(cols))]

\* landing cost, lines 282-356, for one item
build_cost_row(companies, aggs, lc) ==
    LET cols == [k \in 1..Len(companies) |->
                    CostColumns(AggOf(aggs, companies[k]), lc[companies[k]])]
        total == Totals(cols, Len(cols))
        total_qty == total["wh_stock_qty"]
        total_unit_price == UnitPriceSum(cols, Len(cols))
    IN  [unit_price |-> IF total_qty # 0
                        THEN FracMul(total_unit_price, <<1, total_qty>>)
                        ELSE Whole(0),
         companies |-> companies,
         cols |-> cols,
         total |-> total]

LcRates == {0, 4}

InitPivot ==
    /\ pivot_report \in {"free_stock", "landing_cost"}
    /\ pivot_companies \in {<<"c1">>, <<"c1", "c2">>}
    /\ item_aggs \in [Companies -> {None} \cup {Some(a) : a \in Aggs}]
    /\ item_price \in {None, Some(7)}
    /\ lc_rates \in [Companies -> LcRates]
    /\ pivot_report = "free_stock" => \A c \in Companies : lc_rates[c] = 0
    /\ pivot_report = "landing_cost" => item_price = None
    /\ pivot_row = None

notPivot == <<allocVars, ageingVars, filterVars, fxVars, costVars, scrubVars, rebuildVars>>

\* avientek_free_stock.execute, line 32
BuildPivotedData ==
    /\ pivot_row = None
    /\ pivot_report = "free_stock"
    /\ pivot_row' = Some(build_pivoted_row(pivot_companies, item_aggs, item_price))
    /\ UNCHANGED <<pivot_report, pivot_companies, item_aggs, item_price, lc_rates>>
    /\ UNCHANGED notPivot

\* avientek_free_stock___landing_cost.execute, line 59
BuildRows ==
    /\ pivot_row = None
    /\ pivot_report = "landing_cost"
    /\ pivot_row' = Some(build_cost_row(pivot_companies, item_aggs, lc_rates))
    /\ UNCHANGED <<pivot_report, pivot_companies, item_aggs, item_price, lc_rates>>
    /\ UNCHANGED notPivot

InitV == InitPivot /\ AllocIdle /\ AgeingIdle /\ FiltersIdle /\ FxIdle /\ CostIdle
         /\ ScrubIdle /\ RebuildIdle

NextV == BuildPivotedData \/ BuildRows

SpecPivot == InitV /\ [][NextV]_vars

\* ------------------------------------------------------ pivoted-row claims
PivotCols == 1..Len(pivot_companies)
\* the item's summed Bin quantities of the k-th company (all 0 without any)
BinsOf(k) ==
    IF item_aggs[pivot_companies[k]] = None THEN NoAgg
    ELSE Val(item_aggs[pivot_companies[k]])
RECURSIVE ColumnSum(_, _, _)
ColumnSum(cols, f, n) ==
    IF n = 0 THEN 0 ELSE ColumnSum(cols, f, n - 1) + cols[n][f]
RECURSIVE ColumnFracSum(_, _, _)
ColumnFracSum(cols, f, n) ==
    IF n = 0 THEN <<0, 1>> ELSE FracAdd(ColumnFracSum(cols, f, n - 1), cols[n][f])

\* C21: in the row of either report, for every company demand_qty = reserved
\* + indented, free_qty = actual - reserved and net_free_qty = free_qty +
\* ordered - demand_qty, and every total column is the sum of that column
\* over the companies.
C21_PivotIdentities ==
    pivot_row # None =>
        LET row == Val(pivot_row)
        IN  /\ \A k \in PivotCols :
                  /\ row.cols[k].demand_qty = BinsOf(k).reserved + BinsOf(k).indented
                  /\ row.cols[k].free_qty = BinsOf(k).actual - BinsOf(k).reserved
                  /\ row.cols[k].net_free_qty =
                        row.cols[k].free_qty + BinsOf(k).ordered - row.cols[k].demand_qty
            /\ \A f \in {"wh_stock_qty", "ordered_qty", "demand_qty", "free_qty",
                         "net_free_qty"} :
                  row.total[f] = ColumnSum(row.cols, f, Len(row.cols))
            /\ \A f \in {"wh_stock_val", "ordered_val", "demand_val", "free_val",
                         "net_free_val"} :
                  FracEq(row.total[f], ColumnFracSum(row.cols, f, Len(row.cols)))

C21_Witness ==
    /\ pivot_row # None
    /\ pivot_report = "free_stock"
    /\ Len(pivot_companies) = 2
    /\ item_price = Some(7)
    /\ BinsOf(1).actual = 2 /\ BinsOf(1).reserved = 1 /\ BinsOf(1).indented = 1
    /\ BinsOf(1).ordered = 3
    /\ BinsOf(2).actual = 0 /\ BinsOf(2).reserved = 1 /\ BinsOf(2).ordered = 0
    /\ BinsOf(2).indented = 0
    /\ Val(pivot_row).cols[1].net_free_qty = 2
    /\ Val(pivot_row).cols[2].free_qty = -1
    /\ Val(pivot_row).total["net_free_qty"] = 0
    /\ Val(pivot_row).total["free_val"] = <<0, 1>>
    /\ Val(pivot_row).total["wh_stock_val"] = <<14, 1>>

\* the weighted stock valuation rate of the k-th company in the reporting
\* currency: sum(qty * rate) / sum(qty) * (1 / 3.673)
UnitCost(k) == <<BinsOf(k).val_val * 1000, BinsOf(k).val_qty * 3673>>
RECURSIVE WeightedCostSum(_)
WeightedCostSum(n) ==
    IF n = 0 THEN <<0, 1>>
    ELSE IF BinsOf(n).actual = 0 THEN WeightedCostSum(n - 1)
    ELSE FracAdd(WeightedCostSum(n - 1),
                 <<BinsOf(n).actual * UnitCost(n)[1], UnitCost(n)[2]>>)
RECURSIVE StockSum(_)
StockSum(n) == IF n = 0 THEN 0 ELSE StockSum(n - 1) + BinsOf(n).actual

\* C22: in the landing-cost row, for every company with a non-zero stock
\* quantity the company's Unit Price is the weighted stock valuation rate in
\* the reporting currency, and the item's unit price is the average of the
\* companies' unit costs weighted by stock quantity.
C22_UnitPrices ==
    (pivot_row # None /\ pivot_report = "landing_cost") =>
        LET row == Val(pivot_row)
        IN  /\ \A k \in PivotCols :
                  BinsOf(k).actual # 0 => FracEq(row.cols[k].unit_price, UnitCost(k))
            /\ StockSum(Len(pivot_companies)) # 0 =>
                  FracEq(row.unit_price,
                         FracMul(WeightedCostSum(Len(pivot_companies)),
                                 <<1, StockSum(Len(pivot_companies))>>))

====
